---- MODULE Spec2Model ----
(***************************************************************************)
(* Model of the two batch scripts of azure-rag-itpolicy-assistant:         *)
(*   src/src/ingest.py           analyze_document (content normaliser)     *)
(*   src/src/chunk_and_index.py  semantic_chunking, create_simple_index,   *)
(*                               test_openai_embedding, index_chunks and   *)
(*                               the __main__ script                        *)
(* Strings are sequences of one-character strings, so that strip(), len()  *)
(* and ". ".join() are computed as Python computes them.                   *)
(***************************************************************************)
EXTENDS Integers, Sequences, FiniteSets, TLC

VARIABLES
    pc,              \* position of the running script / function
    raw_content,     \* __main__: list loaded from the extraction JSON file
    raw_chunks,      \* semantic_chunking: parameter
    target_chars,    \* semantic_chunking: parameter
    item,            \* semantic_chunking: position of the for loop in raw_chunks
    chunks,          \* semantic_chunking: result list (also __main__'s chunks)
    current_chunk,   \* semantic_chunking: accumulator; items are references into
                     \* raw_chunks, held here as their positions
    current_length,  \* semantic_chunking: running length
    constituents,    \* history: for each closed chunk, the accumulator it was built from
    log,             \* __main__: the external steps performed so far, in order
    key_ok,          \* __main__: what test_openai_embedding returned
    index_call,      \* create_simple_index: how create_or_update_index ended
    index_ok,        \* __main__: what create_simple_index returned
    chunks_file,     \* contents of ./output/nist_chunks_indexed.json
    result,          \* index_chunks: per-document results of upload_documents
    succeeded,       \* index_chunks: local
    failed,          \* index_chunks: local
    success,         \* __main__: what index_chunks returned
    exc,             \* uncaught exception that ended the script, or "none"
    exit_code,       \* process exit status, -1 while the script runs
    pages,           \* analyze_document: result.pages of the analysis service
    page_no,         \* analyze_document: position of the for loop in pages
    content          \* analyze_document: list of content records built so far

vars == <<pc, raw_content, raw_chunks, target_chars, item, chunks, current_chunk,
          current_length, constituents, log, key_ok, index_call, index_ok,
          chunks_file, result, succeeded, failed, success, exc, exit_code, pages, page_no,
          content>>

chunkVars == <<raw_chunks, target_chars, item, chunks, current_chunk,
               current_length, constituents>>
mainVars == <<raw_content, log, key_ok, index_call, index_ok, chunks_file, result,
              succeeded, failed, success, exc, exit_code>>
ingestVars == <<pages, page_no, content>>

(***************************************************************************)
(* Bounds of the model and constants of the program.                       *)
(***************************************************************************)
MaxRecords == 3          \* longest list of content records explored
MaxPages == 2            \* longest list of pages explored

MinChars == 20           \* fragments are records with len(text) < 20
DefaultTargetChars == 1000

(***************************************************************************)
(* Python string primitives.                                               *)
(***************************************************************************)
Whitespace == {" ", "\t", "\n", "\r"}

Rep(c, n) == [k \in 1..n |-> c]

RECURSIVE LStrip(_)
LStrip(s) ==
    IF s = <<>> THEN s
    ELSE IF Head(s) \in Whitespace THEN LStrip(Tail(s)) ELSE s

RECURSIVE RStrip(_)
RStrip(s) ==
    IF s = <<>> THEN s
    ELSE IF s[Len(s)] \in Whitespace THEN RStrip(SubSeq(s, 1, Len(s) - 1)) ELSE s

\* str.strip()
Strip(s) == RStrip(LStrip(s))

\* sep.join(parts)
RECURSIVE Join(_, _)
Join(sep, parts) ==
    IF parts = <<>> THEN <<>>
    ELSE IF Len(parts) = 1 THEN parts[1]
    ELSE parts[1] \o sep \o Join(sep, Tail(parts))

Separator == <<".", " ">>
DocName == "support.pdf"

\* uuid.uuid4(): a fresh identifier.  Fresh identifiers are interchangeable, so
\* the least natural number not yet used stands for them.
Uuid4(used) == CHOOSE u \in 1..(Cardinality(used) + 1) :
                   u \notin used /\ \A v \in 1..(u - 1) : v \in used

(***************************************************************************)
(* Content records the runs are fed with.  Body(n) is a text of n          *)
(* characters that neither starts nor ends with whitespace.                *)
(***************************************************************************)
Body(n) == [k \in 1..n |-> IF k \in {1, n} THEN "x"
                           ELSE IF k % 6 = 0 THEN " " ELSE "a"]

Rec(t, c, p) == [type |-> t, content |-> c, page |-> p]

RecordPool ==
    { Rec("line", <<>>, 1),
      Rec("line", Rep(" ", 3) \o Body(19) \o Rep(" ", 2), 1),
      Rec("paragraph", Rep(" ", 1) \o Body(20), 1),
      Rec("line", Body(30), 2),
      Rec("table", Body(40) \o <<"\n">>, 2),
      Rec("paragraph", Body(950) \o Rep(" ", 2), 3),
      Rec("page_text", Body(1200), 4) }

RecordLists == UNION { [1..n -> RecordPool] : n \in 0..MaxRecords }

Targets == {0, 50, DefaultTargetChars}

\* a file that has not been written
NoFile == [written |-> FALSE, data |-> <<>>]

(***************************************************************************)
(* semantic_chunking(raw_chunks, target_chars)                             *)
(***************************************************************************)
\* line 29: text = item['content'].strip()
Text(rec) == Strip(rec.content)

\* mutant: the fragment test off by one
IsFragmentInclusive(text) == Len(text) <= MinChars

\* line 30: if len(text) < 20: continue
IsFragment(text) == Len(text) < MinChars

\* mutant: the accumulator is tested before the record is counted
MustCloseBeforeAdding(cur_len, text_len, target, cur) ==
    cur_len > target /\ cur # <<>>

\* mutant: the split also happens when the sum equals the target
MustCloseAtEquality(cur_len, text_len, target, cur) ==
    cur_len + text_len >= target /\ cur # <<>>

\* line 35: if current_length + text_len > target_chars and current_chunk
MustClose(cur_len, text_len, target, cur) ==
    cur_len + text_len > target /\ cur # <<>>

\* mutant: the running length is reset to zero instead of the record's length
RestartLengthZero(text_len) == 0

\* line 44: current_length = text_len
RestartLength(text_len) == text_len

\* mutant: page and type taken from the last accumulated record
MakeChunkFromLast(raw, cur, used) ==
    [id       |-> Uuid4(used),
     content  |-> Join(Separator, [k \in 1..Len(cur) |-> raw[cur[k]].content]),
     page     |-> raw[cur[Len(cur)]].page,
     type     |-> raw[cur[Len(cur)]].type,
     doc_name |-> DocName]

\* lines 36-42 and 51-57: the chunk built from the accumulator
MakeChunk(raw, cur, used) ==
    [id       |-> Uuid4(used),
     content  |-> Join(Separator, [k \in 1..Len(cur) |-> raw[cur[k]].content]),
     page     |-> raw[cur[1]].page,
     type     |-> raw[cur[1]].type,
     doc_name |-> DocName]

UsedIds == {chunks[k].id : k \in 1..Len(chunks)}

\* lines 20-26: entry of the function
EnterChunking(raw, target) ==
    /\ raw_chunks' = raw
    /\ target_chars' = target
    /\ item' = 1
    /\ chunks' = <<>>
    /\ current_chunk' = <<>>
    /\ current_length' = 0
    /\ constituents' = <<>>

\* lines 28-31: a fragment is skipped
SkipFragment ==
    /\ pc = "loop"
    /\ item <= Len(raw_chunks)
    /\ IsFragment(Text(raw_chunks[item]))
    /\ item' = item + 1
    /\ UNCHANGED <<pc, raw_chunks, target_chars, chunks, current_chunk,
                   current_length, constituents>>
    /\ UNCHANGED <<mainVars, ingestVars>>

\* lines 35-44: the accumulator is closed and restarted with the record
CloseAndRestart ==
    /\ pc = "loop"
    /\ item <= Len(raw_chunks)
    /\ LET text == Text(raw_chunks[item])
           text_len == Len(text)
       IN /\ ~IsFragment(text)
          /\ MustClose(current_length, text_len, target_chars, current_chunk)
          /\ chunks' = Append(chunks, MakeChunk(raw_chunks, current_chunk, UsedIds))
          /\ constituents' = Append(constituents, current_chunk)
          /\ current_chunk' = <<item>>
          /\ current_length' = RestartLength(text_len)
    /\ item' = item + 1
    /\ UNCHANGED <<pc, raw_chunks, target_chars>>
    /\ UNCHANGED <<mainVars, ingestVars>>

\* lines 45-47: the record joins the accumulator
AppendRecord ==
    /\ pc = "loop"
    /\ item <= Len(raw_chunks)
    /\ LET text == Text(raw_chunks[item])
           text_len == Len(text)
       IN /\ ~IsFragment(text)
          /\ ~MustClose(current_length, text_len, target_chars, current_chunk)
          /\ current_chunk' = Append(current_chunk, item)
          /\ current_length' = current_length + text_len
    /\ item' = item + 1
    /\ UNCHANGED <<pc, raw_chunks, target_chars, chunks, constituents>>
    /\ UNCHANGED <<mainVars, ingestVars>>

\* lines 49-60: the final chunk, then return
FinalChunk ==
    /\ pc = "loop"
    /\ item > Len(raw_chunks)
    /\ IF current_chunk # <<>>
       THEN /\ chunks' = Append(chunks, MakeChunk(raw_chunks, current_chunk, UsedIds))
            /\ constituents' = Append(constituents, current_chunk)
       ELSE UNCHANGED <<chunks, constituents>>
    /\ pc' = "returned"
    /\ UNCHANGED <<raw_chunks, target_chars, item, current_chunk, current_length>>
    /\ UNCHANGED <<mainVars, ingestVars>>

\* semantic_chunking called on any list of records with any target_chars
ChunkInit ==
    /\ pc = "loop"
    /\ raw_chunks \in RecordLists
    /\ target_chars \in Targets
    /\ item = 1
    /\ chunks = <<>>
    /\ current_chunk = <<>>
    /\ current_length = 0
    /\ constituents = <<>>
    /\ raw_content = <<>>
    /\ log = <<>>
    /\ key_ok = FALSE
    /\ index_call = "none"
    /\ index_ok = FALSE
    /\ chunks_file = NoFile
    /\ result = <<>>
    /\ succeeded = 0
    /\ failed = 0
    /\ success = FALSE
    /\ exc = "none"
    /\ exit_code = -1
    /\ pages = <<>>
    /\ page_no = 1
    /\ content = <<>>

ChunkNext == SkipFragment \/ CloseAndRestart \/ AppendRecord \/ FinalChunk

ChunkSpec == ChunkInit /\ [][ChunkNext]_vars

(***************************************************************************)
(* chunk_and_index.py run as a script (__main__, lines 121-156).           *)
(***************************************************************************)
Crash(e) ==
    /\ pc' = "crashed"
    /\ exc' = e
    /\ exit_code' = 1

\* lines 125-128: the extraction JSON is read
LoadJson ==
    /\ pc = "start"
    /\ \E recs \in RecordLists : raw_content' = recs
    /\ log' = Append(log, "load")
    /\ pc' = "test_key"
    /\ UNCHANGED <<key_ok, index_call, index_ok, chunks_file, result, succeeded,
                   failed, success, exc, exit_code>>
    /\ UNCHANGED <<chunkVars, ingestVars>>

\* line 125: open() raises when the extraction stage has written no file
LoadJsonRaises ==
    /\ pc = "start"
    /\ Crash("FileNotFoundError")
    /\ UNCHANGED <<raw_content, log, key_ok, index_call, index_ok, chunks_file,
                   result, succeeded, failed, success>>
    /\ UNCHANGED <<chunkVars, ingestVars>>

\* lines 89-98: test_openai_embedding returns False iff the call raised
TestReturn(raised) == ~raised

\* mutant: the script goes on after a failed key test
AfterKeyTestNoExit(ok) == "create_index"

\* lines 131-133: if not test_openai_embedding(): exit(1)
AfterKeyTest(ok) == IF ok THEN "create_index" ELSE "exited"

TestOpenaiEmbedding ==
    /\ pc = "test_key"
    /\ log' = Append(log, "test")
    /\ \E raised \in BOOLEAN :
          /\ key_ok' = TestReturn(raised)
          /\ pc' = AfterKeyTest(key_ok')
          /\ exit_code' = IF pc' = "exited" THEN 1 ELSE exit_code
    /\ UNCHANGED <<raw_content, index_call, index_ok, chunks_file, result,
                   succeeded, failed, success, exc>>
    /\ UNCHANGED <<chunkVars, ingestVars>>

\* ways index_client.create_or_update_index(index) can end
CreateOutcomes == {"ok", "ResourceExistsError", "HttpResponseError",
                   "ServiceRequestError"}

\* mutant: the handler catches only the "already exists" error
CaughtOnlyExists(outcome) == outcome = "ResourceExistsError"

\* line 83: except Exception catches whatever the call raised
Caught(outcome) == outcome \in CreateOutcomes \ {"ok"}

\* lines 79-85: return True after the call, return True in the except branch
CreateReturn(outcome) == IF outcome = "ok" THEN TRUE ELSE TRUE

\* lines 62-85 and 136: create_simple_index(); its result is not looked at
CreateSimpleIndex ==
    /\ pc = "create_index"
    /\ log' = Append(log, "declare")
    /\ \E outcome \in CreateOutcomes :
          /\ index_call' = outcome
          /\ IF outcome = "ok" \/ Caught(outcome)
             THEN /\ index_ok' = CreateReturn(outcome)
                  /\ pc' = "chunking"
                  /\ UNCHANGED <<exc, exit_code>>
             ELSE /\ Crash(outcome)
                  /\ UNCHANGED index_ok
    /\ UNCHANGED <<raw_content, key_ok, chunks_file, result, succeeded, failed,
                   success>>
    /\ UNCHANGED <<chunkVars, ingestVars>>

\* line 139: chunks = semantic_chunking(raw_content)
CallSemanticChunking ==
    /\ pc = "chunking"
    /\ log' = Append(log, "chunk")
    /\ EnterChunking(raw_content, DefaultTargetChars)
    /\ pc' = "loop"
    /\ UNCHANGED <<raw_content, key_ok, index_call, index_ok, chunks_file, result,
                   succeeded, failed, success, exc, exit_code>>
    /\ UNCHANGED ingestVars

\* lines 142-143: json.dump(chunks, f)
WriteChunksFile ==
    /\ pc = "returned"
    /\ log' = Append(log, "write")
    /\ chunks_file' = [written |-> TRUE, data |-> chunks]
    /\ pc' = "sample"
    /\ UNCHANGED <<raw_content, key_ok, index_call, index_ok, result, succeeded,
                   failed, success, exc, exit_code>>
    /\ UNCHANGED <<chunkVars, ingestVars>>

\* line 145: chunks[0] raises IndexError on an empty list
SampleRaises(chs) == chs = <<>>

\* line 145: print(f"Sample: {chunks[0]['content'][:150]}...")
PrintSample ==
    /\ pc = "sample"
    /\ IF SampleRaises(chunks)
       THEN Crash("IndexError")
       ELSE pc' = "index" /\ UNCHANGED <<exc, exit_code>>
    /\ UNCHANGED <<raw_content, log, key_ok, index_call, index_ok, chunks_file,
                   result, succeeded, failed, success>>
    /\ UNCHANGED <<chunkVars, ingestVars>>

\* line 111: succeeded = sum(1 for r in result if r.succeeded)
RECURSIVE CountSucceeded(_)
CountSucceeded(res) ==
    IF res = <<>> THEN 0
    ELSE (IF Head(res) THEN 1 ELSE 0) + CountSucceeded(Tail(res))

\* line 112: failed = len(chunks) - succeeded
FailedCount(n, ok) == n - ok

\* mutant: success as soon as one document was indexed
IndexReturnAny(ok, n) == ok > 0

\* line 119: return succeeded == len(chunks)
IndexReturn(ok, n) == ok = n

\* lines 100-119 and 148: success = index_chunks(chunks); one upload_documents
\* call, which answers with one result per document
IndexChunks ==
    /\ pc = "index"
    /\ log' = Append(log, "upload")
    /\ \E res \in [1..Len(chunks) -> BOOLEAN] :
          /\ result' = res
          /\ succeeded' = CountSucceeded(res)
          /\ failed' = FailedCount(Len(chunks), succeeded')
          /\ success' = IndexReturn(succeeded', Len(chunks))
    /\ pc' = "report"
    /\ UNCHANGED <<raw_content, key_ok, index_call, index_ok, chunks_file, exc,
                   exit_code>>
    /\ UNCHANGED <<chunkVars, ingestVars>>

\* line 109: upload_documents raises when the whole request fails; nothing
\* catches it
IndexChunksRaises ==
    /\ pc = "index"
    /\ log' = Append(log, "upload")
    /\ Crash("HttpResponseError")
    /\ UNCHANGED <<raw_content, key_ok, index_call, index_ok, chunks_file, result,
                   succeeded, failed, success>>
    /\ UNCHANGED <<chunkVars, ingestVars>>

\* lines 150-156: the closing message, then the script ends
Report ==
    /\ pc = "report"
    /\ pc' = "done"
    /\ exit_code' = 0
    /\ UNCHANGED <<raw_content, log, key_ok, index_call, index_ok, chunks_file,
                   result, succeeded, failed, success, exc>>
    /\ UNCHANGED <<chunkVars, ingestVars>>

Init ==
    /\ pc = "start"
    /\ raw_content = <<>>
    /\ raw_chunks = <<>>
    /\ target_chars = DefaultTargetChars
    /\ item = 1
    /\ chunks = <<>>
    /\ current_chunk = <<>>
    /\ current_length = 0
    /\ constituents = <<>>
    /\ log = <<>>
    /\ key_ok = FALSE
    /\ index_call = "none"
    /\ index_ok = FALSE
    /\ chunks_file = NoFile
    /\ result = <<>>
    /\ succeeded = 0
    /\ failed = 0
    /\ success = FALSE
    /\ exc = "none"
    /\ exit_code = -1
    /\ pages = <<>>
    /\ page_no = 1
    /\ content = <<>>

Next ==
    \/ LoadJson
    \/ LoadJsonRaises
    \/ TestOpenaiEmbedding
    \/ CreateSimpleIndex
    \/ CallSemanticChunking
    \/ SkipFragment
    \/ CloseAndRestart
    \/ AppendRecord
    \/ FinalChunk
    \/ WriteChunksFile
    \/ PrintSample
    \/ IndexChunks
    \/ IndexChunksRaises
    \/ Report

Spec == Init /\ [][Next]_vars

(***************************************************************************)
(* ingest.py: analyze_document (lines 17-76).                              *)
(***************************************************************************)
None == "<None>"

\* an optional attribute of a page: missing (hasattr is false, or the value
\* is None) or a list
Missing == [present |-> FALSE, items |-> <<>>]
Some(list) == [present |-> TRUE, items |-> list]

\* hasattr(page, a) and page.a
Truthy(attr) == attr.present /\ attr.items # <<>>

\* x or ""
OrEmpty(x) == IF x = None \/ x = "" THEN "" ELSE x

\* sep.join(parts) on Python strings
RECURSIVE JoinStr(_, _)
JoinStr(sep, parts) ==
    IF parts = <<>> THEN ""
    ELSE IF Len(parts) = 1 THEN parts[1]
    ELSE parts[1] \o sep \o JoinStr(sep, Tail(parts))

\* line 55: f"R{cell.row_index}C{cell.column_index}: {content}"
CellText(cell) ==
    "R" \o ToString(cell.row_index) \o "C" \o ToString(cell.column_index)
        \o ": " \o cell.content

\* lines 33-38
ParagraphRecords(page, page_num) ==
    [k \in 1..Len(page.paragraphs.items) |->
        [type |-> "paragraph",
         content |-> OrEmpty(page.paragraphs.items[k]),
         page |-> page_num]]

\* lines 42-48
LineRecords(page, page_num) ==
    [k \in 1..Len(page.lines.items) |->
        [type |-> "line",
         content |-> OrEmpty(page.lines.items[k].content),
         page |-> page_num,
         confidence |-> page.lines.items[k].confidence]]

\* lines 52-64
TableRecords(page, page_num) ==
    [k \in 1..Len(page.tables.items) |->
        LET table == page.tables.items[k]
        IN [type |-> "table",
            content |-> JoinStr("\n", [c \in 1..Len(table.cells) |->
                                          CellText(table.cells[c])]),
            page |-> page_num,
            rows |-> table.row_count,
            cols |-> table.column_count]]

\* lines 68-73
PageTextRecords(page, page_num) ==
    << [type |-> "page_text",
        content |-> JoinStr(" ", page.words.items),
        page |-> page_num] >>

\* lines 32-48: if paragraphs ... elif lines ...
TextPart(page, page_num) ==
    IF Truthy(page.paragraphs) THEN ParagraphRecords(page, page_num)
    ELSE IF Truthy(page.lines) THEN LineRecords(page, page_num)
    ELSE <<>>

\* lines 51-73: if tables ... elif words ...
TablePart(page, page_num) ==
    IF Truthy(page.tables) THEN TableRecords(page, page_num)
    ELSE IF Truthy(page.words) THEN PageTextRecords(page, page_num)
    ELSE <<>>

\* lines 28-73: one iteration of the loop over result.pages
AnalyzePage ==
    /\ pc = "pages"
    /\ page_no <= Len(pages)
    /\ LET page == pages[page_no]
           page_num == page.page_number
       IN content' = content \o TextPart(page, page_num)
                             \o TablePart(page, page_num)
    /\ page_no' = page_no + 1
    /\ UNCHANGED <<pc, pages>>
    /\ UNCHANGED <<chunkVars, mainVars>>

\* lines 75-76: return content
AnalyzeReturn ==
    /\ pc = "pages"
    /\ page_no > Len(pages)
    /\ pc' = "analyzed"
    /\ UNCHANGED <<pages, page_no, content>>
    /\ UNCHANGED <<chunkVars, mainVars>>

\* pages the analysis service may answer with
TableOne == [row_count |-> 1, column_count |-> 2,
             cells |-> << [row_index |-> 0, column_index |-> 0, content |-> "AC-1"],
                          [row_index |-> 0, column_index |-> 1, content |-> "Policy"] >>]

PageShapes ==
    [paragraphs : {Missing, Some(<<>>), Some(<<"Access control policy", None>>)},
     lines      : {Missing, Some(<< [content |-> "AC-1 POLICY", confidence |-> 1] >>)},
     tables     : {Missing, Some(<<TableOne>>)},
     words      : {Missing, Some(<<"AC-1", "POLICY">>)}]

PageLists ==
    UNION { { [k \in 1..n |->
                 [page_number |-> k,
                  paragraphs  |-> shapes[k].paragraphs,
                  lines       |-> shapes[k].lines,
                  tables      |-> shapes[k].tables,
                  words       |-> shapes[k].words]] :
              shapes \in [1..n -> PageShapes] } : n \in 0..MaxPages }

IngestInit ==
    /\ pc = "pages"
    /\ pages \in PageLists
    /\ page_no = 1
    /\ content = <<>>
    /\ raw_content = <<>>
    /\ raw_chunks = <<>>
    /\ target_chars = DefaultTargetChars
    /\ item = 1
    /\ chunks = <<>>
    /\ current_chunk = <<>>
    /\ current_length = 0
    /\ constituents = <<>>
    /\ log = <<>>
    /\ key_ok = FALSE
    /\ index_call = "none"
    /\ index_ok = FALSE
    /\ chunks_file = NoFile
    /\ result = <<>>
    /\ succeeded = 0
    /\ failed = 0
    /\ success = FALSE
    /\ exc = "none"
    /\ exit_code = -1

IngestNext == AnalyzePage \/ AnalyzeReturn

IngestSpec == IngestInit /\ [][IngestNext]_vars

(***************************************************************************)
(* Properties of semantic_chunking.                                        *)
(***************************************************************************)
TrimmedLen(k) == Len(Strip(raw_chunks[k].content))

Kept(k) == TrimmedLen(k) >= 20

KeptPositions ==
    SelectSeq([k \in 1..Len(raw_chunks) |-> k], LAMBDA k : Kept(k))

RECURSIVE Flatten(_)
Flatten(ss) == IF ss = <<>> THEN <<>> ELSE Head(ss) \o Flatten(Tail(ss))

RECURSIVE SumLen(_)
SumLen(ps) == IF ps = <<>> THEN 0 ELSE TrimmedLen(Head(ps)) + SumLen(Tail(ps))

Returned == pc = "returned"

\* C1: when semantic_chunking returns, the constituents of the output chunks,
\* listed in output order, are exactly the input records of trimmed length
\* >= 20 in input order (each in one chunk, fragments in none), and no chunk
\* is empty; so an empty or fragment-only input gives no chunk.
C1_Partition ==
    Returned =>
        /\ Len(chunks) = Len(constituents)
        /\ Flatten(constituents) = KeptPositions
        /\ \A c \in 1..Len(constituents) : constituents[c] # <<>>
        /\ (KeptPositions = <<>> => chunks = <<>>)

\* a run that dropped a fragment whose untrimmed length is >= 20 and merged
\* the records on both sides of it
C1_Witness ==
    /\ Returned
    /\ constituents = << <<1, 3>> >>
    /\ ~Kept(2)
    /\ Len(raw_chunks[2].content) >= 20

\* C2: no chunk has an accumulated length (trimmed lengths of its records,
\* separators not counted) above target_chars, unless it is made of a single
\* record that is itself longer than target_chars.
C2_Bounded ==
    \A c \in 1..Len(constituents) :
        SumLen(constituents[c]) > target_chars =>
            /\ Len(constituents[c]) = 1
            /\ TrimmedLen(constituents[c][1]) > target_chars

\* a chunk of several records filled exactly to the target, next to a chunk
\* made of one over-long record
C2_Witness ==
    /\ target_chars > 0
    /\ \E c \in 1..Len(constituents) :
          Len(constituents[c]) >= 2 /\ SumLen(constituents[c]) = target_chars
    /\ \E c \in 1..Len(constituents) :
          Len(constituents[c]) = 1 /\ SumLen(constituents[c]) > target_chars

\* C3: a kept record closes the current chunk and starts a new accumulator
\* iff the accumulator is non-empty and running length + trimmed length is
\* strictly above target_chars; otherwise (equality included) it is merged.
\* The running length is the sum of trimmed lengths without separators, and
\* lengths [30, 40, 950] with target 1000 give chunks {1,2} and {3}.
C3_Step ==
    (pc = "loop" /\ item <= Len(raw_chunks) /\ Kept(item)) =>
        LET tl == TrimmedLen(item)
            over == current_chunk # <<>> /\ current_length + tl > target_chars
        IN /\ over =>
                /\ constituents' = Append(constituents, current_chunk)
                /\ Len(chunks') = Len(chunks) + 1
                /\ current_chunk' = <<item>>
                /\ current_length' = tl
           /\ ~over =>
                /\ constituents' = constituents
                /\ chunks' = chunks
                /\ current_chunk' = Append(current_chunk, item)
                /\ current_length' = current_length + tl

C3_RunningLength == current_length = SumLen(current_chunk)

C3_Example ==
    ( /\ Returned
      /\ target_chars = 1000
      /\ Len(raw_chunks) = 3
      /\ TrimmedLen(1) = 30 /\ TrimmedLen(2) = 40 /\ TrimmedLen(3) = 950 )
    => constituents = << <<1, 2>>, <<3>> >>

C3_SplitRule ==
    /\ [](C3_RunningLength /\ C3_Example)
    /\ [][C3_Step]_vars

\* a record was merged although it brought the running length exactly to
\* the target
C3_Witness ==
    /\ target_chars > 0
    /\ Len(current_chunk) >= 2
    /\ current_length = target_chars
    /\ item = current_chunk[Len(current_chunk)] + 1

\* C4: a record whose own trimmed length exceeds target_chars is the only
\* constituent of its chunk, whatever precedes or follows it, and it is in
\* one chunk whole; a single record of length 1200 with target 1000 gives
\* one chunk holding that record.
C4_OversizeAlone ==
    /\ \A c \in 1..Len(constituents) :
          \A j \in 1..Len(constituents[c]) :
              TrimmedLen(constituents[c][j]) > target_chars =>
                  constituents[c] = <<constituents[c][j]>>
    /\ \A j \in 1..Len(current_chunk) :
          TrimmedLen(current_chunk[j]) > target_chars =>
              current_chunk = <<current_chunk[j]>>
    /\ Returned =>
          \A k \in 1..Len(raw_chunks) :
              (Kept(k) /\ TrimmedLen(k) > target_chars) =>
                  /\ Cardinality({c \in 1..Len(constituents) :
                                     constituents[c] = <<k>>}) = 1
                  /\ \E c \in 1..Len(chunks) :
                        /\ constituents[c] = <<k>>
                        /\ chunks[c].content = raw_chunks[k].content
    /\ ( /\ Returned
         /\ target_chars = 1000
         /\ Len(raw_chunks) = 1
         /\ TrimmedLen(1) = 1200 )
       => (constituents = << <<1>> >> /\ Len(chunks) = 1)

\* an over-long record between two kept records that would fit together
C4_Witness ==
    /\ Returned
    /\ target_chars > 0
    /\ Len(raw_chunks) = 3
    /\ Kept(1) /\ Kept(3)
    /\ TrimmedLen(1) + TrimmedLen(3) <= target_chars
    /\ TrimmedLen(2) > target_chars
    /\ constituents = << <<1>>, <<2>>, <<3>> >>

\* the constituents' content joined with ". ", built from the left
RECURSIVE JoinedContent(_)
JoinedContent(ps) ==
    IF Len(ps) = 1 THEN raw_chunks[ps[1]].content
    ELSE JoinedContent(SubSeq(ps, 1, Len(ps) - 1))
             \o <<".", " ">> \o raw_chunks[ps[Len(ps)]].content

\* C5: every closed chunk, closed in the loop or as the final chunk, has as
\* content its constituents' content joined in order with ". ", has the page
\* and type of its first constituent, and has the fixed doc_name.
C5_ChunkFields ==
    /\ Len(chunks) = Len(constituents)
    /\ \A c \in 1..Len(chunks) :
          /\ chunks[c].content = JoinedContent(constituents[c])
          /\ chunks[c].page = raw_chunks[constituents[c][1]].page
          /\ chunks[c].type = raw_chunks[constituents[c][1]].type
          /\ chunks[c].doc_name = "support.pdf"

\* one chunk closed in the loop and a final chunk of two records that differ
\* in page and type
C5_Witness ==
    /\ Returned
    /\ Len(chunks) = 2
    /\ LET last == constituents[2]
       IN /\ Len(last) = 2
          /\ raw_chunks[last[1]].page # raw_chunks[last[2]].page
          /\ raw_chunks[last[1]].type # raw_chunks[last[2]].type

(***************************************************************************)
(* Properties of the chunk-and-index script.                               *)
(***************************************************************************)
Count(step) == Cardinality({k \in 1..Len(log) : log[k] = step})

Logged(step) == Count(step) > 0

LaterSteps == {"declare", "chunk", "write", "upload"}

Terminated == pc \in {"done", "exited", "crashed"}

C7_AfterIndex ==
    /\ index_call # "none" => index_ok
    /\ (Terminated /\ Logged("declare")) =>
          /\ Logged("chunk")
          /\ Logged("write")
          /\ log[Len(log)] # "declare"

C7_Step ==
    pc = "create_index" =>
        /\ pc' = "chunking"
        /\ index_call' \in CreateOutcomes
        /\ index_ok' = TRUE
        /\ exc' = "none"
        /\ exit_code' = -1

C8_UploadTally ==
    /\ Count("upload") <= 1
    /\ pc \in {"report", "done"} =>
          /\ Count("upload") = 1
          /\ Len(result) = Len(chunks)
          /\ succeeded = Cardinality({k \in 1..Len(result) : result[k]})
          /\ failed = Len(chunks) - succeeded
          /\ failed = Cardinality({k \in 1..Len(result) : ~result[k]})
          /\ success = (\A k \in 1..Len(result) : result[k])
          /\ exc = "none"

\* a finished run in which some documents were indexed and some were not
C8_Witness ==
    /\ pc = "done"
    /\ succeeded >= 1
    /\ failed >= 1
    /\ ~success
    /\ exit_code = 0

\* C10: once the credential test has passed, every run goes through index
\* declaration, chunking, the write of the chunk file and the upload, in
\* this order, also when semantic_chunking returns no chunk.
C10_ReachesUpload ==
    (Terminated /\ Logged("test") /\ key_ok) =>
        log = <<"load", "test", "declare", "chunk", "write", "upload">>

(***************************************************************************)
(* Properties of analyze_document.                                         *)
(***************************************************************************)
RecordsOfPage(n) == SelectSeq(content, LAMBDA r : r.page = n)

TypesOf(recs) == [k \in 1..Len(recs) |-> recs[k].type]

\* the record types the priority fallback gives for one page
FallbackTypes(page) ==
    LET text == IF Truthy(page.paragraphs)
                THEN [k \in 1..Len(page.paragraphs.items) |-> "paragraph"]
                ELSE IF Truthy(page.lines)
                THEN [k \in 1..Len(page.lines.items) |-> "line"]
                ELSE <<>>
        tabs == IF Truthy(page.tables)
                THEN [k \in 1..Len(page.tables.items) |-> "table"]
                ELSE <<>>
    IN IF text \o tabs # <<>> THEN text \o tabs
       ELSE IF Truthy(page.words) THEN <<"page_text">>
       ELSE <<>>

\* C9: for each page, paragraph records if it has paragraphs, else line
\* records if it has lines; table records whenever it has tables; a
\* page_text record only when the page gave no paragraph, line or table
\* record; records are appended in page order.
C9_PriorityFallback ==
    /\ \A n \in 1..(page_no - 1) :
          TypesOf(RecordsOfPage(n)) = FallbackTypes(pages[n])
    /\ \A j, k \in 1..Len(content) : j < k => content[j].page <= content[k].page

====
